---- MODULE Spec2Model ----
(***************************************************************************)
(* Model of praxis/layers/quantization/quantize.py: the rewriter that      *)
(* replaces child templates of a pax_fiddle.Config graph by quantized      *)
(* templates, the for_transformer / for_diffusion decorators, and          *)
(* set_inference_mode; and of the template configs pax_fiddle_test.py      *)
(* clones, sets and builds.                                                *)
(*                                                                         *)
(* The config graph is an object store: `heap` is a sequence of objects,   *)
(* an object's identity is its index.  A pax_fiddle.Config is an object of *)
(* kind "Config" (target class + explicitly set arguments); a              *)
(* QuantizationParams dataclass instance is an object of kind "Object"     *)
(* (its `mode` field is assigned in place by set_inference_mode).          *)
(* Argument values are tagged records: None, int, str, bool, a reference   *)
(* to an object, a sequence of values, or a params value object.           *)
(***************************************************************************)
EXTENDS Integers, Sequences, FiniteSets, TLC

VARIABLES
    heap,    \* the object store: Seq of objects, identity = index
    task,    \* what the undecorated task() returns: model root, checkpoint rules
    pre,     \* the object store as it was when the last operation was called
    trace,   \* the operations applied so far, each with its arguments
    err,     \* the exception the last operation raised, or NoError
    calls,   \* the models the last task() handed to a set_*_quantization pass
    to_process,  \* the work list of a set_inference_mode call in progress
    visited      \* the Config nodes that call has processed so far, in order

vars == <<heap, task, pre, trace, err, calls, to_process, visited>>

\* How many times set_inference_mode is applied to one config.
MaxInferenceCalls == 2

(***************************************************************************)
(* Values                                                                  *)
(***************************************************************************)
None == [k |-> "none"]
IntV(n) == [k |-> "int", v |-> n]
StrV(s) == [k |-> "str", v |-> s]
BoolV(b) == [k |-> "bool", v |-> b]
Ref(i) == [k |-> "ref", id |-> i]
SeqV(s) == [k |-> "seq", elems |-> s]

Range(s) == {s[i] : i \in DOMAIN s}

NoError == [kind |-> "none", cls |-> "", at |-> ""]
ValueError(cls, at) == [kind |-> "ValueError", cls |-> cls, at |-> at]
AssertionError == [kind |-> "AssertionError", cls |-> "", at |-> "task"]
AttributeError == [kind |-> "AttributeError", cls |-> "NoneType", at |-> "mode"]

(***************************************************************************)
(* Classes.  layers.* are the float layers, quantization.* their quantized *)
(* counterparts.  Base gives each class's direct base class.               *)
(***************************************************************************)
Base(cls) ==
    CASE cls = "DotProductAttentionWithLPB" -> "DotProductAttention"
      [] cls = "MultiQueryDotProductAttentionLPB" -> "MultiQueryDotProductAttention"
      [] cls = "SharedEmbeddingSoftmax" -> "FullSoftmax"
      [] OTHER -> "BaseLayer"

RECURSIVE issubclass(_, _)
issubclass(cls, base) ==
    IF cls = base THEN TRUE
    ELSE IF cls = "BaseLayer" THEN FALSE
    ELSE issubclass(Base(cls), base)

\* 'MultiQueryDotProductAttention' in cls.__name__
NameHasMultiQuery(cls) ==
    cls \in {"MultiQueryDotProductAttention", "MultiQueryDotProductAttentionLPB"}

AttentionClasses ==
    {"DotProductAttention", "DotProductAttentionWithLPB",
     "MultiQueryDotProductAttention", "MultiQueryDotProductAttentionLPB",
     "GroupedQueryAttention"}
SoftmaxClasses == {"SharedEmbeddingSoftmax", "FullSoftmax"}
NgrammerChoices == {"None", "Ngrammer", "VQNgrammer", "VectorQuantization"}
Layouts == {"single", "seq", "nested", "shared"}

(***************************************************************************)
(* Objects                                                                 *)
(***************************************************************************)
Config(cls, args) == [kind |-> "Config", cls |-> cls, args |-> args]
Object(cls, args) == [kind |-> "Object", cls |-> cls, args |-> args]

\* Declaration order of the argument names, as fdl.ordered_arguments lists them.
ArgOrder ==
    <<"lm_tpl", "aux_tpl", "unet_tpl", "softmax_tpl", "ngrammer_tpl",
      "stacked_transformer_tpl", "transformer_layer_params_tpl",
      "tr_atten_tpl", "tr_fflayer_tpl", "fflayer_tpl", "linear_tpl",
      "proj_tpl", "combined_qkv_proj_tpl", "headless_proj_tpl",
      "conv_tpl", "blocks", "quantization", "rank",
      "input_dims", "output_dims", "input_dim", "num_heads", "num_classes",
      "filter_shape", "ngram_vocab_size", "hidden_dims",
      "quantization_type", "mode", "act_params", "weight_params">>

ArgOrderSet == {ArgOrder[i] : i \in DOMAIN ArgOrder}

\* fdl.ordered_arguments(node).values()
ArgVals(h, id) ==
    LET names == SelectSeq(ArgOrder, LAMBDA a : a \in DOMAIN h[id].args)
    IN [i \in 1..Len(names) |-> h[id].args[names[i]]]

IsConfig(h, v) == v.k = "ref" /\ h[v.id].kind = "Config"

\* node.name = val
SetAttr(h, id, name, val) ==
    [h EXCEPT ![id].args = (name :> val) @@ @]

\* hasattr(v, name), for the values a config graph holds
HasAttr(h, v, name) == v.k = "ref" /\ name \in DOMAIN h[v.id].args

(***************************************************************************)
(* Quantization parameters                                                 *)
(***************************************************************************)
\* Mutant: num_bits is not passed on, precision keeps its default of 8 bits.
WeightQuantizationParams_default_precision(a) ==
    [k |-> "WeightQuantizationParams", precision |-> 8,
     use_symmetric |-> a.use_symmetric, dtype |-> a.dtype,
     block_size |-> a.block_size]

\* WeightQuantizationParams(precision=..., ...) of set_transformer_quantization
WeightQuantizationParams(a) ==
    [k |-> "WeightQuantizationParams", precision |-> a.num_bits,
     use_symmetric |-> a.use_symmetric, dtype |-> a.dtype,
     block_size |-> a.block_size]

\* Mutant: the test of weight_quant_only is inverted.
ActQuantizationParams_inverted(a) ==
    IF ~a.weight_quant_only THEN None
    ELSE [k |-> "ActQuantizationParams", precision |-> a.num_bits]

\* None if weight_quant_only else ActQuantizationParams(precision=num_bits)
ActQuantizationParams(a) ==
    IF a.weight_quant_only THEN None
    ELSE [k |-> "ActQuantizationParams", precision |-> a.num_bits]

\* QuantizationParams(quantization_type=, mode=, act_params=, weight_params=)
QuantizationParams(qt, mode, wp, ap) ==
    Object("QuantizationParams",
           [quantization_type |-> StrV(qt), mode |-> StrV(mode),
            act_params |-> ap, weight_params |-> wp])

\* QuantizationParams(quantization_type=, mode=, weight_params=): act_params
\* is not passed and keeps the dataclass default.
WeightOnlyQuantizationParams(qt, mode, wp) ==
    Object("QuantizationParams",
           [quantization_type |-> StrV(qt), mode |-> StrV(mode),
            weight_params |-> wp])

\* pax_fiddle.Config(cls, quantization=<qp>, **extra): the params object is
\* constructed first, the template second; the template is the last object.
NewTpl(h, cls, qp, extra) ==
    LET h1 == Append(h, qp)
    IN Append(h1, Config(cls, ("quantization" :> Ref(Len(h1))) @@ extra))

NoArgs == [x \in {} |-> None]

(***************************************************************************)
(* The component-level rewrites.  Those that cannot raise map a heap to a  *)
(* heap; those that can raise map st = [heap, err] to such a record.       *)
(***************************************************************************)
quantize_dot_product_attention_layer_weights(h, attn_tpl, qt, mode, wp, ap) ==
    LET h1 == NewTpl(h, "quantization.AttentionProjection",
                     QuantizationParams(qt, mode, wp, ap), NoArgs)
        h2 == SetAttr(h1, attn_tpl, "proj_tpl", Ref(Len(h1)))
        h3 == NewTpl(h2, "quantization.CombinedQKVProjectionLayer",
                     QuantizationParams(qt, mode, wp, ap), NoArgs)
    IN SetAttr(h3, attn_tpl, "combined_qkv_proj_tpl", Ref(Len(h3)))

quantize_mq_dot_product_attention_layer_weights(h, attn_tpl, qt, mode, wp, ap) ==
    LET h1 == NewTpl(h, "quantization.AttentionProjection",
                     QuantizationParams(qt, mode, wp, ap), NoArgs)
        h2 == SetAttr(h1, attn_tpl, "proj_tpl", Ref(Len(h1)))
        h3 == NewTpl(h2, "quantization.OneHeadedAttentionProjection",
                     QuantizationParams(qt, mode, wp, ap), NoArgs)
    IN SetAttr(h3, attn_tpl, "headless_proj_tpl", Ref(Len(h3)))

\* Mutant: an attention class of neither family is skipped without an error.
quantize_attention_layer_weights_skipping_unknown(st, tr_tpl, qt, mode, wp, ap) ==
    LET h == st.heap
        tr_atten_tpl == h[tr_tpl].args.tr_atten_tpl.id
        cls == h[tr_atten_tpl].cls
    IN IF issubclass(cls, "DotProductAttention")
       THEN [st EXCEPT !.heap = quantize_dot_product_attention_layer_weights(
                                    h, tr_atten_tpl, qt, mode, wp, ap)]
       ELSE IF NameHasMultiQuery(cls)
       THEN [st EXCEPT !.heap = quantize_mq_dot_product_attention_layer_weights(
                                    h, tr_atten_tpl, qt, mode, wp, ap)]
       ELSE st

quantize_attention_layer_weights(st, tr_tpl, qt, mode, wp, ap) ==
    LET h == st.heap
        tr_atten_tpl == h[tr_tpl].args.tr_atten_tpl.id
        cls == h[tr_atten_tpl].cls
    IN IF issubclass(cls, "DotProductAttention")
       THEN [st EXCEPT !.heap = quantize_dot_product_attention_layer_weights(
                                    h, tr_atten_tpl, qt, mode, wp, ap)]
       ELSE IF NameHasMultiQuery(cls)
       THEN [st EXCEPT !.heap = quantize_mq_dot_product_attention_layer_weights(
                                    h, tr_atten_tpl, qt, mode, wp, ap)]
       ELSE [st EXCEPT !.err = ValueError(cls, "tr_atten_tpl")]

\* Mutant: the feed-forward template is copied, the copy gets the quantized
\* Linear and takes the original's place under tr_fflayer_tpl.
quantize_transformer_feed_forward_layer_weights_on_copy(h, tr_fflayer_tpl, qt, mode, wp, ap, rank) ==
    LET fflayer_tpl == h[tr_fflayer_tpl].args.fflayer_tpl.id
        h1 == NewTpl(h, "quantization.Linear",
                     QuantizationParams(qt, mode, wp, ap), [rank |-> IntV(rank)])
        h2 == Append(h1, h[fflayer_tpl])
        h3 == SetAttr(h2, Len(h2), "linear_tpl", Ref(Len(h1)))
    IN SetAttr(h3, tr_fflayer_tpl, "fflayer_tpl", Ref(Len(h2)))

quantize_transformer_feed_forward_layer_weights(h, tr_fflayer_tpl, qt, mode, wp, ap, rank) ==
    LET fflayer_tpl == h[tr_fflayer_tpl].args.fflayer_tpl.id
        h1 == NewTpl(h, "quantization.Linear",
                     QuantizationParams(qt, mode, wp, ap), [rank |-> IntV(rank)])
    IN SetAttr(h1, fflayer_tpl, "linear_tpl", Ref(Len(h1)))

\* Mutant: linear_only is ignored, the attention is quantized in every call.
quantize_transformer_layer_weights_ignoring_linear_only(st, tr_tpl, qt, mode, wp, ap, linear_only, rank) ==
    LET s1 == quantize_attention_layer_weights(st, tr_tpl, qt, mode, wp, ap)
    IN IF s1.err # NoError THEN s1
       ELSE [s1 EXCEPT !.heap = quantize_transformer_feed_forward_layer_weights(
                 s1.heap, s1.heap[tr_tpl].args.tr_fflayer_tpl.id,
                 qt, mode, wp, ap, rank)]

quantize_transformer_layer_weights(st, tr_tpl, qt, mode, wp, ap, linear_only, rank) ==
    LET s1 == IF ~linear_only
              THEN quantize_attention_layer_weights(st, tr_tpl, qt, mode, wp, ap)
              ELSE st
    IN IF s1.err # NoError THEN s1
       ELSE [s1 EXCEPT !.heap = quantize_transformer_feed_forward_layer_weights(
                 s1.heap, s1.heap[tr_tpl].args.tr_fflayer_tpl.id,
                 qt, mode, wp, ap, rank)]

\* The fields a quantized class shares with the float class it stands for.
SharedFields(cls) ==
    CASE cls \in {"quantization.SharedEmbeddingSoftmax",
                  "quantization.NClassMajorSharedEmbeddingSoftmax"}
           -> {"input_dims", "num_classes"}
      [] cls \in {"quantization.Ngrammer", "quantization.VQNgrammer"}
           -> {"ngram_vocab_size", "input_dims"}
      [] cls = "quantization.Linear" -> {"input_dims", "output_dims"}
      [] cls \in {"quantization.AttentionProjection",
                  "quantization.CombinedQKVProjectionLayer",
                  "quantization.OneHeadedAttentionProjection"}
           -> {"input_dim"}
      [] cls = "quantization.Conv2D" -> {"filter_shape"}
      [] OTHER -> {}

\* new_tpl.copy_fields_from(source): the fields set on source that new_tpl's
\* class has too are set on new_tpl; quantization is not copied.
copy_fields_from(h, new_tpl, source) ==
    LET names == (DOMAIN h[source].args \cap SharedFields(h[new_tpl].cls))
                     \ {"quantization"}
        copied == [n \in names |-> h[source].args[n]]
    IN [h EXCEPT ![new_tpl].args = copied @@ @]

\* Mutant: the softmax class is not checked, any softmax is replaced.
_quantize_embedding_softmax_layer_weights_unchecked(st, lm_tpl, qt, mode, wp, transposed_embedding_softmax) ==
    LET h == st.heap
        softmax_tpl == h[lm_tpl].args.softmax_tpl.id
        new_cls == IF transposed_embedding_softmax
                   THEN "quantization.NClassMajorSharedEmbeddingSoftmax"
                   ELSE "quantization.SharedEmbeddingSoftmax"
        h1 == NewTpl(h, new_cls, WeightOnlyQuantizationParams(qt, mode, wp), NoArgs)
        h2 == copy_fields_from(h1, Len(h1), softmax_tpl)
    IN [st EXCEPT !.heap = SetAttr(h2, lm_tpl, "softmax_tpl", Ref(Len(h1)))]

_quantize_embedding_softmax_layer_weights(st, lm_tpl, qt, mode, wp, transposed_embedding_softmax) ==
    LET h == st.heap
        softmax_tpl == h[lm_tpl].args.softmax_tpl.id
        new_cls == IF transposed_embedding_softmax
                   THEN "quantization.NClassMajorSharedEmbeddingSoftmax"
                   ELSE "quantization.SharedEmbeddingSoftmax"
        h1 == NewTpl(h, new_cls, WeightOnlyQuantizationParams(qt, mode, wp), NoArgs)
        h2 == copy_fields_from(h1, Len(h1), softmax_tpl)
    IN IF issubclass(h[softmax_tpl].cls, "SharedEmbeddingSoftmax")
       THEN [st EXCEPT !.heap = SetAttr(h2, lm_tpl, "softmax_tpl", Ref(Len(h1)))]
       ELSE [st EXCEPT !.err = ValueError(h[softmax_tpl].cls, "softmax_tpl")]

\* Mutant: the final `else: return` is missing, a class that is neither an
\* Ngrammer nor a VQNgrammer is replaced like a VQNgrammer.
_quantize_ngrammer_embedding_weights_replacing_others(h, lm_tpl, qt, mode, wp) ==
    LET ngrammer_tpl == h[lm_tpl].args.ngrammer_tpl
        cls == h[ngrammer_tpl.id].cls
        new_ngrammer_cls == IF issubclass(cls, "Ngrammer")
                            THEN "quantization.Ngrammer"
                            ELSE "quantization.VQNgrammer"
        h1 == NewTpl(h, new_ngrammer_cls,
                     WeightOnlyQuantizationParams(qt, mode, wp), NoArgs)
        h2 == copy_fields_from(h1, Len(h1), ngrammer_tpl.id)
    IN IF ngrammer_tpl = None THEN h
       ELSE SetAttr(h2, lm_tpl, "ngrammer_tpl", Ref(Len(h1)))

_quantize_ngrammer_embedding_weights(h, lm_tpl, qt, mode, wp) ==
    LET ngrammer_tpl == h[lm_tpl].args.ngrammer_tpl
        cls == h[ngrammer_tpl.id].cls
        new_ngrammer_cls == IF issubclass(cls, "Ngrammer")
                            THEN "quantization.Ngrammer"
                            ELSE "quantization.VQNgrammer"
        h1 == NewTpl(h, new_ngrammer_cls,
                     WeightOnlyQuantizationParams(qt, mode, wp), NoArgs)
        h2 == copy_fields_from(h1, Len(h1), ngrammer_tpl.id)
    IN IF ngrammer_tpl = None THEN h
       ELSE IF ~issubclass(cls, "Ngrammer") /\ ~issubclass(cls, "VQNgrammer") THEN h
       ELSE SetAttr(h2, lm_tpl, "ngrammer_tpl", Ref(Len(h1)))

(***************************************************************************)
(* utils.find_target_tpl(config, target): the Config nodes reachable from  *)
(* config (through arguments and sequences) whose class is a subclass of   *)
(* target, each once, in depth-first order.                                *)
(***************************************************************************)
RECURSIVE Walk(_, _, _)
Walk(h, stack, seen) ==
    IF stack = <<>> THEN seen
    ELSE LET v == Head(stack)
             rest == Tail(stack)
         IN IF v.k = "seq" THEN Walk(h, v.elems \o rest, seen)
            ELSE IF IsConfig(h, v) /\ v.id \notin Range(seen)
            THEN Walk(h, ArgVals(h, v.id) \o rest, Append(seen, v.id))
            ELSE Walk(h, rest, seen)

find_target_tpl(h, config, target) ==
    SelectSeq(Walk(h, <<config>>, <<>>), LAMBDA i : issubclass(h[i].cls, target))

(***************************************************************************)
(* The model-wide passes.  `a` is the record of keyword arguments.         *)
(***************************************************************************)
RECURSIVE TransformerLoop(_, _, _)
TransformerLoop(st, transformer_tpls, a) ==
    IF transformer_tpls = <<>> \/ st.err # NoError THEN st
    ELSE TransformerLoop(
             quantize_transformer_layer_weights(
                 st, Head(transformer_tpls), a.quantization_type, a.mode,
                 WeightQuantizationParams(a), ActQuantizationParams(a),
                 a.linear_only, a.rank),
             Tail(transformer_tpls), a)

\* The body of `for lm_tpl in lm_tpls`
LmBody(st, lm_tpl, a) ==
    LET s1 == IF a.quantize_embedding_softmax
              THEN _quantize_embedding_softmax_layer_weights(
                       st, lm_tpl, a.quantization_type, a.mode,
                       WeightQuantizationParams(a), a.transposed_embedding_softmax)
              ELSE st
    IN IF s1.err # NoError \/ ~a.quantize_ngrammer_embedding THEN s1
       ELSE [s1 EXCEPT !.heap = _quantize_ngrammer_embedding_weights(
                 s1.heap, lm_tpl, a.quantization_type, a.mode,
                 WeightQuantizationParams(a))]

RECURSIVE LmLoop(_, _, _)
LmLoop(st, lm_tpls, a) ==
    IF lm_tpls = <<>> \/ st.err # NoError THEN st
    ELSE LmLoop(LmBody(st, Head(lm_tpls), a), Tail(lm_tpls), a)

set_transformer_quantization(st, config, a) ==
    LET s1 == TransformerLoop(st, find_target_tpl(st.heap, config, "Transformer"), a)
    IN IF s1.err # NoError THEN s1
       ELSE IF a.quantize_embedding_softmax \/ a.quantize_ngrammer_embedding
       THEN LmLoop(s1, find_target_tpl(s1.heap, config, "TransformerLm"), a)
       ELSE s1

\* WeightQuantizationParams(precision=, use_symmetric=, dtype=) of
\* set_diffusion_quantization
DiffusionWeightQuantizationParams(a) ==
    [k |-> "WeightQuantizationParams", precision |-> a.num_bits,
     use_symmetric |-> a.use_symmetric, dtype |-> a.dtype]

RECURSIVE DiffusionLoop(_, _, _)
DiffusionLoop(h, diffusion_tpls, a) ==
    IF diffusion_tpls = <<>> THEN h
    ELSE LET diffusion_tpl == Head(diffusion_tpls)
             h1 == NewTpl(h, "quantization.Conv2D",
                          QuantizationParams(a.quantization_type, a.mode,
                                             DiffusionWeightQuantizationParams(a),
                                             ActQuantizationParams(a)),
                          NoArgs)
         IN DiffusionLoop(
                IF HasAttr(h, Ref(diffusion_tpl), "conv_tpl")
                THEN SetAttr(h1, diffusion_tpl, "conv_tpl", Ref(Len(h1)))
                ELSE h,
                Tail(diffusion_tpls), a)

set_diffusion_quantization(st, config, a) ==
    [st EXCEPT !.heap = DiffusionLoop(
         st.heap, find_target_tpl(st.heap, config, a.target), a)]

(***************************************************************************)
(* set_inference_mode: a work list of values; w = [heap, err, to_process]. *)
(***************************************************************************)
\* Mutant: the mode is toggled, a template already in INFERENCE mode goes
\* back to TRAINING.
set_quantization_mode_inference_toggling(w, tpl) ==
    IF ~HasAttr(w.heap, tpl, "quantization") THEN w
    ELSE LET q == w.heap[tpl.id].args.quantization
         IN IF q.k = "ref"
            THEN [w EXCEPT !.heap = SetAttr(@, q.id, "mode",
                     IF w.heap[q.id].args.mode = StrV("INFERENCE")
                     THEN StrV("TRAINING") ELSE StrV("INFERENCE"))]
            ELSE [w EXCEPT !.err = AttributeError]

\* Mutant: the template gets new parameters, in INFERENCE mode, in place of
\* its own: quantization type, weight and activation parameters are lost.
set_quantization_mode_inference_replacing_params(w, tpl) ==
    IF ~HasAttr(w.heap, tpl, "quantization") THEN w
    ELSE LET q == w.heap[tpl.id].args.quantization
         IN IF q.k = "ref"
            THEN [w EXCEPT !.heap[q.id] =
                     Object("QuantizationParams", [mode |-> StrV("INFERENCE")])]
            ELSE [w EXCEPT !.err = AttributeError]

set_quantization_mode_inference(w, tpl) ==
    IF ~HasAttr(w.heap, tpl, "quantization") THEN w
    ELSE LET q == w.heap[tpl.id].args.quantization
         IN IF q.k = "ref"
            THEN [w EXCEPT !.heap = SetAttr(@, q.id, "mode", StrV("INFERENCE"))]
            ELSE [w EXCEPT !.err = AttributeError]

\* for param_elem in params: ...
RECURSIVE ForParamElems(_, _)
ForParamElems(w, params) ==
    IF params = <<>> \/ w.err # NoError THEN w
    ELSE LET param_elem == Head(params)
             w1 == set_quantization_mode_inference(w, param_elem)
             w2 == IF w1.err = NoError /\ IsConfig(w1.heap, param_elem)
                   THEN [w1 EXCEPT !.to_process = @ \o ArgVals(w1.heap, param_elem.id)]
                   ELSE w1
         IN ForParamElems(w2, Tail(params))

\* One iteration of `while to_process`
Iterate(w) ==
    LET n == Len(w.to_process)
        param == w.to_process[n]
        params == IF param.k = "seq" THEN param.elems ELSE <<param>>
    IN ForParamElems([w EXCEPT !.to_process = SubSeq(@, 1, n - 1)], params)

RECURSIVE WhileToProcess(_)
WhileToProcess(w) ==
    IF w.to_process = <<>> \/ w.err # NoError THEN w
    ELSE WhileToProcess(Iterate(w))

set_inference_mode(st, config) ==
    LET w == WhileToProcess([heap |-> st.heap, err |-> st.err,
                             to_process |-> <<config>>])
    IN [st EXCEPT !.heap = w.heap, !.err = w.err]

(***************************************************************************)
(* Wrapper.task of the decorators.  t is the task config the undecorated   *)
(* task() returned; st.calls lists the models handed to a pass.            *)
(***************************************************************************)
\* models = [task_p.model] + the models of the checkpoint rules, if asked for
Models(t, a) ==
    <<t.model>> \o
    (IF a.quantize_init_from_checkpoint_rules_task /\ t.has_train /\ t.has_rules
     THEN t.rules ELSE <<>>)

RECURSIVE TransformerModelsLoop(_, _, _)
TransformerModelsLoop(st, models, a) ==
    IF models = <<>> \/ st.err # NoError THEN st
    ELSE TransformerModelsLoop(
             set_transformer_quantization(
                 [st EXCEPT !.calls = Append(@, Head(models))],
                 Ref(Head(models)), a),
             Tail(models), a)

\* Mutant: the bit width is checked after the passes have run.
for_transformer_task_late_assert(st, t, a) ==
    LET s1 == TransformerModelsLoop(st, Models(t, a), a)
    IN IF s1.err = NoError /\ a.num_bits \notin {2, 4, 8}
       THEN [s1 EXCEPT !.err = AssertionError]
       ELSE s1

for_transformer_task(st, t, a) ==
    IF a.num_bits \notin {2, 4, 8} THEN [st EXCEPT !.err = AssertionError]
    ELSE TransformerModelsLoop(st, Models(t, a), a)

RECURSIVE DiffusionModelsLoop(_, _, _)
DiffusionModelsLoop(st, models, a) ==
    IF models = <<>> \/ st.err # NoError THEN st
    ELSE DiffusionModelsLoop(
             set_diffusion_quantization(
                 [st EXCEPT !.calls = Append(@, Head(models))],
                 Ref(Head(models)), a),
             Tail(models), a)

for_diffusion_task(st, t, a) ==
    IF a.num_bits \notin {2, 4, 8} THEN [st EXCEPT !.err = AssertionError]
    ELSE DiffusionModelsLoop(st, Models(t, a), a)

(***************************************************************************)
(* The configs the rewriter is given.  Each builder returns the objects of *)
(* one model config, to be stored from index base+1 on; the model's root   *)
(* is the last of them.                                                    *)
(***************************************************************************)
\* A transformer block: 7 configs, the Transformer itself is base+7.
BlockNodes(base, attn) ==
    << Config("AttentionProjection", [input_dim |-> IntV(16)]),
       IF NameHasMultiQuery(attn)
       THEN Config("OneHeadedAttentionProjection", [input_dim |-> IntV(16)])
       ELSE Config("CombinedQKVProjectionLayer", [input_dim |-> IntV(16)]),
       IF NameHasMultiQuery(attn)
       THEN Config(attn, [proj_tpl |-> Ref(base + 1),
                          headless_proj_tpl |-> Ref(base + 2),
                          num_heads |-> IntV(4)])
       ELSE Config(attn, [proj_tpl |-> Ref(base + 1),
                          combined_qkv_proj_tpl |-> Ref(base + 2),
                          num_heads |-> IntV(4)]),
       Config("Linear", [input_dims |-> IntV(16), output_dims |-> IntV(64)]),
       Config("FeedForward", [linear_tpl |-> Ref(base + 4)]),
       Config("TransformerFeedForward",
              [fflayer_tpl |-> Ref(base + 5), hidden_dims |-> IntV(64)]),
       Config("Transformer",
              [tr_atten_tpl |-> Ref(base + 3), tr_fflayer_tpl |-> Ref(base + 6)]) >>

\* A language model: LanguageModel -> TransformerLm -> StackedTransformer ->
\* Transformer block.  layout says how the block is referenced; with "pair"
\* there is a second block, of attention class attn2, in the same list.
LmNodes(base, attn, attn2, sm, ngr, layout) ==
    LET block == base + 7
        block2 == base + 14
        h1 == BlockNodes(base, attn) \o
              (IF layout = "pair" THEN BlockNodes(base + 7, attn2) ELSE <<>>) \o
              << Config(sm, [input_dims |-> IntV(16), num_classes |-> IntV(32)]) >>
        softmax == base + Len(h1)
        h2 == IF ngr = "None" THEN h1
              ELSE Append(h1, Config(ngr, [ngram_vocab_size |-> IntV(8)]))
        ngrammer == IF ngr = "None" THEN None ELSE Ref(base + Len(h2))
        blockVal == CASE layout = "seq" -> SeqV(<<Ref(block)>>)
                      [] layout = "nested" -> SeqV(<<SeqV(<<Ref(block)>>)>>)
                      [] layout = "pair" -> SeqV(<<Ref(block), Ref(block2)>>)
                      [] OTHER -> Ref(block)
        h3 == Append(h2, Config("StackedTransformer",
                                [transformer_layer_params_tpl |-> blockVal]))
        h4 == Append(h3, Config("TransformerLm",
                                [softmax_tpl |-> Ref(softmax),
                                 ngrammer_tpl |-> ngrammer,
                                 stacked_transformer_tpl |-> Ref(base + Len(h3))]))
    IN Append(h4, Config("LanguageModel",
                         IF layout = "shared"
                         THEN [lm_tpl |-> Ref(base + Len(h4)), aux_tpl |-> Ref(block)]
                         ELSE [lm_tpl |-> Ref(base + Len(h4))]))

Lm(attn, sm, ngr, layout) == LmNodes(0, attn, attn, sm, ngr, layout)

\* A model of two language models, each with its own softmax class.
TwoLmNodes(sm1, sm2) ==
    LET h1 == LmNodes(0, "DotProductAttention", "DotProductAttention",
                      sm1, "Ngrammer", "single")
        h2 == LmNodes(Len(h1), "DotProductAttention", "DotProductAttention",
                      sm2, "None", "single")
    IN Append(h1 \o h2,
              Config("EncoderDecoder",
                     [lm_tpl |-> Ref(Len(h1)), aux_tpl |-> Ref(Len(h1) + Len(h2))]))

\* A diffusion model: DiffusionModel -> UNet (with a conv_tpl) -> a sequence
\* of two ResnetBlocks (each with a conv_tpl) and a TimeEmbedding (without).
DiffusionNodes(base) ==
    << Config("Conv2D", [filter_shape |-> IntV(3)]),
       Config("Conv2D", [filter_shape |-> IntV(1)]),
       Config("ResnetBlock", [conv_tpl |-> Ref(base + 2)]),
       Config("Conv2D", [filter_shape |-> IntV(1)]),
       Config("ResnetBlock", [conv_tpl |-> Ref(base + 4)]),
       Config("TimeEmbedding", [input_dims |-> IntV(16)]),
       Config("UNet", [conv_tpl |-> Ref(base + 1),
                       blocks |-> SeqV(<<Ref(base + 3), Ref(base + 5),
                                         Ref(base + 6)>>)]),
       Config("DiffusionModel", [unet_tpl |-> Ref(base + 7)]) >>

\* The task config: the primary model and, with rules, one checkpoint rule
\* whose task has a model of its own.
WithRules(family, nodes, rules) ==
    LET more == IF family = "lm"
                THEN LmNodes(Len(nodes), "DotProductAttention", "DotProductAttention",
                             "SharedEmbeddingSoftmax", "None", "single")
                ELSE DiffusionNodes(Len(nodes))
    IN [heap |-> IF rules THEN nodes \o more ELSE nodes,
        task |-> [family |-> family, model |-> Len(nodes), has_train |-> TRUE,
                  has_rules |-> rules,
                  rules |-> IF rules THEN <<Len(nodes) + Len(more)>> ELSE <<>>]]

InitialConfigs ==
    { WithRules("lm", Lm(attn, sm, "None", "single"), FALSE) :
          attn \in AttentionClasses, sm \in SoftmaxClasses }
    \cup
    { WithRules("lm", Lm("DotProductAttention", sm, ngr, "single"), FALSE) :
          sm \in SoftmaxClasses, ngr \in NgrammerChoices }
    \cup
    { WithRules("lm", Lm(attn, "SharedEmbeddingSoftmax", "None", layout), rules) :
          attn \in {"DotProductAttention", "MultiQueryDotProductAttention"},
          layout \in Layouts, rules \in BOOLEAN }
    \cup
    { WithRules("lm", LmNodes(0, p[1], p[2], sm, "None", "pair"), FALSE) :
          p \in {<<"DotProductAttention", "GroupedQueryAttention">>,
                 <<"GroupedQueryAttention", "MultiQueryDotProductAttention">>},
          sm \in SoftmaxClasses }
    \cup
    { WithRules("lm", TwoLmNodes(p[1], p[2]), FALSE) :
          p \in {<<"SharedEmbeddingSoftmax", "FullSoftmax">>,
                 <<"FullSoftmax", "SharedEmbeddingSoftmax">>} }
    \cup
    { WithRules("diffusion", DiffusionNodes(0), rules) : rules \in BOOLEAN }

(***************************************************************************)
(* The arguments the operations are called with.                           *)
(***************************************************************************)
Modes == {"TRAINING", "INFERENCE", "MATERIALIZE"}
NumBits == {4, 6, 8}

\* transposed_embedding_softmax is only read when the softmax is quantized.
AllTransformerArgs ==
    [quantization_type : {"FQ"}, mode : Modes, num_bits : NumBits,
     linear_only : BOOLEAN, use_symmetric : {TRUE}, rank : {-1},
     weight_quant_only : BOOLEAN, quantize_embedding_softmax : BOOLEAN,
     transposed_embedding_softmax : BOOLEAN,
     quantize_ngrammer_embedding : BOOLEAN, dtype : {"int8"}, block_size : {0},
     quantize_init_from_checkpoint_rules_task : BOOLEAN]

TransformerArgs ==
    {a \in AllTransformerArgs :
        a.transposed_embedding_softmax => a.quantize_embedding_softmax}

DiffusionArgs ==
    [target : {"UNet", "ResnetBlock", "TimeEmbedding"},
     quantization_type : {"FQ"}, mode : Modes, num_bits : NumBits,
     use_symmetric : {TRUE}, weight_quant_only : BOOLEAN, dtype : {"int8"},
     quantize_init_from_checkpoint_rules_task : BOOLEAN]

\* The arguments of a direct call of a whole-model pass: no checkpoint flag.
Direct(args) == {a \in args : ~a.quantize_init_from_checkpoint_rules_task}

\* The arguments of a direct call on one transformer block.
BlockArgs ==
    {a \in Direct(TransformerArgs) :
        /\ ~a.quantize_embedding_softmax
        /\ ~a.transposed_embedding_softmax
        /\ ~a.quantize_ngrammer_embedding}

Blocks(h) == {i \in DOMAIN h : h[i].kind = "Config" /\ h[i].cls = "Transformer"}

Start == [heap |-> heap, err |-> NoError, calls |-> <<>>]

InferenceCalls == Len(SelectSeq(trace, LAMBDA e : e.op = "set_inference_mode"))

\* The operation's result becomes the state.
Finish(st, op, a, config) ==
    /\ heap' = st.heap
    /\ err' = st.err
    /\ calls' = st.calls
    /\ pre' = heap
    /\ trace' = Append(trace, [op |-> op, a |-> a, config |-> config])
    /\ UNCHANGED <<task, to_process, visited>>

Init ==
    \E c \in InitialConfigs :
        /\ heap = c.heap
        /\ task = c.task
        /\ pre = c.heap
        /\ trace = <<>>
        /\ err = NoError
        /\ calls = <<>>
        /\ to_process = <<>>
        /\ visited = <<>>

\* A config is quantized once: every quantizing operation starts from the
\* config as the undecorated experiment built it.
SetTransformerQuantization ==
    /\ trace = <<>> /\ task.family = "lm"
    /\ \E a \in Direct(TransformerArgs) :
           Finish(set_transformer_quantization(Start, Ref(task.model), a),
                  "set_transformer_quantization", a, Ref(task.model))

SetDiffusionQuantization ==
    /\ trace = <<>> /\ task.family = "diffusion"
    /\ \E a \in Direct(DiffusionArgs) :
           Finish(set_diffusion_quantization(Start, Ref(task.model), a),
                  "set_diffusion_quantization", a, Ref(task.model))

QuantizeTransformerLayerWeights ==
    /\ trace = <<>>
    /\ \E a \in BlockArgs, tr_tpl \in Blocks(heap) :
           Finish(quantize_transformer_layer_weights(
                      Start, tr_tpl, a.quantization_type, a.mode,
                      WeightQuantizationParams(a), ActQuantizationParams(a),
                      a.linear_only, a.rank),
                  "quantize_transformer_layer_weights", a, Ref(tr_tpl))

QuantizeAttentionLayerWeights ==
    /\ trace = <<>>
    /\ \E a \in {b \in BlockArgs : ~b.linear_only}, tr_tpl \in Blocks(heap) :
           Finish(quantize_attention_layer_weights(
                      Start, tr_tpl, a.quantization_type, a.mode,
                      WeightQuantizationParams(a), ActQuantizationParams(a)),
                  "quantize_attention_layer_weights", a, Ref(tr_tpl))

\* The language-model templates of h.
Lms(h) == {i \in DOMAIN h : h[i].kind = "Config" /\ h[i].cls = "TransformerLm"}

\* The arguments of a direct call on one language-model template.
NgrammerArgs == {a \in BlockArgs : ~a.linear_only /\ ~a.weight_quant_only}

QuantizeNgrammerEmbeddingWeights ==
    /\ trace = <<>>
    /\ \E a \in NgrammerArgs, lm_tpl \in Lms(heap) :
           Finish([Start EXCEPT !.heap = _quantize_ngrammer_embedding_weights(
                       heap, lm_tpl, a.quantization_type, a.mode,
                       WeightQuantizationParams(a))],
                  "_quantize_ngrammer_embedding_weights", a, Ref(lm_tpl))

ForTransformerTask ==
    /\ trace = <<>> /\ task.family = "lm"
    /\ \E a \in TransformerArgs :
           Finish(for_transformer_task(Start, task, a),
                  "for_transformer.task", a, Ref(task.model))

ForDiffusionTask ==
    /\ trace = <<>> /\ task.family = "diffusion"
    /\ \E a \in DiffusionArgs :
           Finish(for_diffusion_task(Start, task, a),
                  "for_diffusion.task", a, Ref(task.model))

\* set_inference_mode(config), with the model root or a list holding it; a
\* repeated call is given the same config as the call before it.
InferenceConfigs ==
    IF InferenceCalls = 0
    THEN {Ref(task.model), SeqV(<<Ref(task.model)>>)}
    ELSE {e.config : e \in {x \in Range(trace) : x.op = "set_inference_mode"}}

SetInferenceMode ==
    /\ InferenceCalls < MaxInferenceCalls
    /\ \E config \in InferenceConfigs :
           Finish(set_inference_mode(Start, config),
                  "set_inference_mode", [none |-> TRUE], config)

Next ==
    \/ SetTransformerQuantization
    \/ SetDiffusionQuantization
    \/ QuantizeTransformerLayerWeights
    \/ QuantizeAttentionLayerWeights
    \/ QuantizeNgrammerEmbeddingWeights
    \/ ForTransformerTask
    \/ ForDiffusionTask
    \/ SetInferenceMode

Spec == Init /\ [][Next]_vars

(***************************************************************************)
(* Properties                                                              *)
(***************************************************************************)
Last == trace[Len(trace)]
LastOp(op) == trace # <<>> /\ Last.op = op

\* The objects an object refers to directly through its arguments.
Children(h, id) ==
    {v.id : v \in {h[id].args[n] : n \in DOMAIN h[id].args} \cap
                  {Ref(i) : i \in DOMAIN h}}

\* tr_tpl.tr_atten_tpl and tr_tpl.tr_fflayer_tpl.fflayer_tpl.linear_tpl
AttenOf(h, tr_tpl) == h[tr_tpl].args.tr_atten_tpl.id
FflayerOf(h, tr_tpl) == h[h[tr_tpl].args.tr_fflayer_tpl.id].args.fflayer_tpl.id
LinearOf(h, tr_tpl) == h[FflayerOf(h, tr_tpl)].args.linear_tpl.id

\* C1: quantize_transformer_layer_weights with linear_only=True does not
\* raise, leaves the block's attention sub-template as it was (the same
\* node, with the same class and the same projection templates, themselves
\* unchanged) and makes tr_fflayer_tpl.fflayer_tpl.linear_tpl a new template
\* of the quantized Linear class.
C1_LinearOnlyKeepsAttention ==
    (LastOp("quantize_transformer_layer_weights") /\ Last.a.linear_only) =>
        LET tr_tpl == Last.config.id
            atten == AttenOf(pre, tr_tpl)
        IN /\ err = NoError
           /\ heap[tr_tpl] = pre[tr_tpl]
           /\ heap[atten] = pre[atten]
           /\ \A c \in Children(pre, atten) : heap[c] = pre[c]
           /\ LinearOf(heap, tr_tpl) \notin DOMAIN pre
           /\ heap[LinearOf(heap, tr_tpl)].cls = "quantization.Linear"

\* C1 witness: a linear-only call on a block whose attention class the
\* rewriter cannot quantize, which still got its quantized Linear.
C1_Witness ==
    /\ LastOp("quantize_transformer_layer_weights") /\ Last.a.linear_only
    /\ heap[AttenOf(heap, Last.config.id)].cls = "GroupedQueryAttention"
    /\ heap[LinearOf(heap, Last.config.id)].cls = "quantization.Linear"

\* The two attention families of the dispatch, by their member classes.
SingleQueryFamily == {"DotProductAttention", "DotProductAttentionWithLPB"}
MultiQueryFamily ==
    {"MultiQueryDotProductAttention", "MultiQueryDotProductAttentionLPB"}

\* node.name is a template created by the last operation, of class cls.
IsNewTpl(id, name, cls) ==
    /\ name \in DOMAIN heap[id].args
    /\ heap[id].args[name].k = "ref"
    /\ heap[id].args[name].id \notin DOMAIN pre
    /\ heap[heap[id].args[name].id].cls = cls

\* C2: quantize_attention_layer_weights dispatches on the class of
\* tr_tpl.tr_atten_tpl: in the single-query family proj_tpl and
\* combined_qkv_proj_tpl become new quantized AttentionProjection and
\* CombinedQKVProjectionLayer templates; in the multi-query family proj_tpl
\* and headless_proj_tpl become new quantized AttentionProjection and
\* OneHeadedAttentionProjection templates; for any other class it raises the
\* ValueError that carries that class, and rewrites nothing.
C2_AttentionDispatch ==
    LastOp("quantize_attention_layer_weights") =>
        LET atten == AttenOf(pre, Last.config.id)
            cls == pre[atten].cls
        IN /\ cls \in SingleQueryFamily =>
                 /\ err = NoError
                 /\ IsNewTpl(atten, "proj_tpl", "quantization.AttentionProjection")
                 /\ IsNewTpl(atten, "combined_qkv_proj_tpl",
                             "quantization.CombinedQKVProjectionLayer")
           /\ cls \in MultiQueryFamily =>
                 /\ err = NoError
                 /\ IsNewTpl(atten, "proj_tpl", "quantization.AttentionProjection")
                 /\ IsNewTpl(atten, "headless_proj_tpl",
                             "quantization.OneHeadedAttentionProjection")
           /\ cls \notin SingleQueryFamily \cup MultiQueryFamily =>
                 /\ err = ValueError(cls, "tr_atten_tpl")
                 /\ heap = pre

\* C2 witness: the call on a GroupedQueryAttention block has raised.
C2_Witness ==
    /\ LastOp("quantize_attention_layer_weights")
    /\ pre[AttenOf(pre, Last.config.id)].cls = "GroupedQueryAttention"
    /\ err.kind = "ValueError" /\ err.cls = "GroupedQueryAttention"

\* The Config nodes reachable from config in heap h, and the nodes a search
\* for target yields.
Reachable(h, config) == Range(Walk(h, <<config>>, <<>>))
Matched(h, config, target) == Range(find_target_tpl(h, config, target))

SharedEmbeddingSoftmaxFamily == {"SharedEmbeddingSoftmax"}

\* The language-model templates of the config whose softmax the rewriter
\* rejects.
RejectedLms(h, config) ==
    {lm \in Matched(h, config, "TransformerLm") :
        h[h[lm].args.softmax_tpl.id].cls \notin SharedEmbeddingSoftmaxFamily}

\* set_transformer_quantization was asked to quantize the softmax of a
\* config that has a language model with a rejected softmax.
C3_Case ==
    /\ LastOp("set_transformer_quantization")
    /\ Last.a.quantize_embedding_softmax
    /\ RejectedLms(pre, Last.config) # {}

\* C3 as stated: in that case the pass raises the ValueError and every node
\* of the config graph is as it was before the call.
C3_Original ==
    C3_Case =>
        /\ err.kind = "ValueError"
        /\ \A i \in DOMAIN pre : heap[i] = pre[i]

\* The blocks of the config whose attention class the dispatch rejects.
RejectedBlocks(h, config) ==
    {b \in Matched(h, config, "Transformer") :
        h[AttenOf(h, b)].cls \notin SingleQueryFamily \cup MultiQueryFamily}

\* C3 amended: in that case the pass raises the ValueError, and every
\* language-model template with a rejected softmax, its softmax template and
\* its ngrammer template are as they were before the call.  The transformer
\* blocks are rewritten before any softmax is looked at: if the block pass
\* itself raises (an attention class it rejects, without linear_only) the
\* error names that attention class; otherwise the error names the rejected
\* softmax class and every matched block already has its quantized Linear.
C3_FailedSoftmaxLeavesLmOnly ==
    C3_Case =>
        /\ err.kind = "ValueError"
        /\ \A lm \in RejectedLms(pre, Last.config) :
               /\ heap[lm] = pre[lm]
               /\ \A c \in Children(pre, lm) \ {pre[lm].args.stacked_transformer_tpl.id} :
                      heap[c] = pre[c]
        /\ IF ~Last.a.linear_only /\ RejectedBlocks(pre, Last.config) # {}
           THEN /\ err.at = "tr_atten_tpl"
                /\ \E b \in RejectedBlocks(pre, Last.config) :
                       err.cls = pre[AttenOf(pre, b)].cls
           ELSE /\ err.at = "softmax_tpl"
                /\ \E lm \in RejectedLms(pre, Last.config) :
                       err.cls = pre[pre[lm].args.softmax_tpl.id].cls
                /\ \A b \in Matched(pre, Last.config, "Transformer") :
                       IsNewTpl(FflayerOf(pre, b), "linear_tpl", "quantization.Linear")

\* C3 witness: the softmax error has been raised on a config whose block's
\* linear template is, by then, the quantized one.
C3_Witness ==
    /\ C3_Case
    /\ err = ValueError("FullSoftmax", "softmax_tpl")
    /\ \E b \in Matched(pre, Last.config, "Transformer") :
           /\ heap[LinearOf(heap, b)].cls = "quantization.Linear"
           /\ pre[LinearOf(pre, b)].cls = "Linear"

SupportedBits == {2, 4, 8}

C5_Case ==
    /\ LastOp("set_transformer_quantization") \/ LastOp("set_diffusion_quantization")
    /\ Last.a.num_bits \notin SupportedBits

\* C5 as stated: such a call fails the invariant and rewrites nothing.
C5_Original ==
    C5_Case => (err.kind = "AssertionError" /\ heap = pre)

\* The templates the last operation created, and a template's weight precision.
NewTpls == {i \in DOMAIN heap \ DOMAIN pre : heap[i].kind = "Config"}
PrecisionOf(tpl) == heap[heap[tpl].args.quantization.id].args.weight_params.precision

\* The matched diffusion templates that have a conv_tpl.
ConvTargets(h, config, target) ==
    {d \in Matched(h, config, target) : "conv_tpl" \in DOMAIN h[d].args}

\* C5 amended: the restriction to {2, 4, 8} is the decorators' (C4); the
\* passes themselves do not check num_bits.  Called directly with another
\* num_bits they raise no invariant violation and rewrite as for any width:
\* every template they create has weight precision num_bits, a transformer
\* pass that returns has given every block its quantized Linear, and a
\* diffusion pass returns having replaced the conv_tpl of every matched
\* template that has one.
C5_PassesDoNotCheckBits ==
    C5_Case =>
        /\ err.kind # "AssertionError"
        /\ \A t \in NewTpls : PrecisionOf(t) = Last.a.num_bits
        /\ (LastOp("set_transformer_quantization") /\ err = NoError) =>
               \A b \in Matched(pre, Last.config, "Transformer") :
                   IsNewTpl(FflayerOf(pre, b), "linear_tpl", "quantization.Linear")
        /\ LastOp("set_diffusion_quantization") =>
               /\ err = NoError
               /\ \A d \in ConvTargets(pre, Last.config, Last.a.target) :
                      IsNewTpl(d, "conv_tpl", "quantization.Conv2D")

\* C5 witness: set_transformer_quantization with 6 bits has returned, and the
\* block's linear template is a quantized Linear with 6-bit weights.
C5_Witness ==
    /\ LastOp("set_transformer_quantization")
    /\ Last.a.num_bits = 6 /\ err = NoError
    /\ \E b \in Matched(pre, Last.config, "Transformer") :
           /\ IsNewTpl(FflayerOf(pre, b), "linear_tpl", "quantization.Linear")
           /\ PrecisionOf(LinearOf(heap, b)) = 6

\* The mode of a node's quantization parameters.
ModeOf(h, id) == h[h[id].args.quantization.id].args.mode.v

\* The Config nodes of h that carry a quantization argument.
Quantized(h) ==
    {i \in DOMAIN h : h[i].kind = "Config" /\ "quantization" \in DOMAIN h[i].args}

\* C6 as stated: after set_inference_mode(root) returns, every Config node
\* reachable from root through arguments and through sequences, nested to
\* any depth, that carries a quantization argument is in INFERENCE mode.
C6_Original ==
    (LastOp("set_inference_mode") /\ err = NoError) =>
        \A i \in Reachable(heap, Last.config) \cap Quantized(heap) :
            ModeOf(heap, i) = "INFERENCE"

QuantizingOps ==
    {"set_transformer_quantization", "set_diffusion_quantization",
     "quantize_transformer_layer_weights", "quantize_attention_layer_weights",
     "for_transformer.task", "for_diffusion.task"}

\* The places (node, argument) where the last operation put a template it
\* created in place of a template that was there.
Replaced ==
    {p \in {<<i, n>> : i \in DOMAIN pre, n \in ArgOrderSet} :
        /\ p[2] \in DOMAIN pre[p[1]].args
        /\ IsConfig(pre, pre[p[1]].args[p[2]])
        /\ heap[p[1]].args[p[2]].k = "ref"
        /\ heap[p[1]].args[p[2]].id \in NewTpls}

\* C7 as stated: wherever a quantize_* operation replaced a child template,
\* each non-quantization field that was set on the old template and that the
\* quantized class has too is set to the same value on the new template.
C7_Original ==
    (trace # <<>> /\ Last.op \in QuantizingOps) =>
        \A p \in Replaced :
            LET old == pre[pre[p[1]].args[p[2]].id]
                new == heap[heap[p[1]].args[p[2]].id]
            IN \A f \in (DOMAIN old.args \cap SharedFields(new.cls)) \ {"quantization"} :
                   f \in DOMAIN new.args /\ new.args[f] = old.args[f]

\* A template's quantization parameters hold activation parameters.
HasActParams(tpl) ==
    LET qp == heap[heap[tpl].args.quantization.id].args
    IN "act_params" \in DOMAIN qp /\ qp.act_params # None

C8_Case ==
    /\ LastOp("set_transformer_quantization") \/ LastOp("set_diffusion_quantization")
    /\ err = NoError

\* C8 as stated: after a whole-model pass returns, every template it created
\* has activation parameters if and only if weight_quant_only is False.
C8_Original ==
    C8_Case => \A t \in NewTpls : HasActParams(t) <=> ~Last.a.weight_quant_only

EmbeddingClasses ==
    {"quantization.SharedEmbeddingSoftmax",
     "quantization.NClassMajorSharedEmbeddingSoftmax",
     "quantization.Ngrammer", "quantization.VQNgrammer"}

\* C8 amended: after a whole-model pass returns, every attention
\* projection, feed-forward linear and convolution template it created has
\* activation parameters if and only if weight_quant_only is False; the
\* embedding/softmax and ngrammer templates it created are weight-only, they
\* have no activation parameters whatever weight_quant_only is.
C8_ActParamsExceptEmbeddings ==
    C8_Case =>
        \A t \in NewTpls :
            IF heap[t].cls \in EmbeddingClasses
            THEN ~HasActParams(t)
            ELSE HasActParams(t) <=> ~Last.a.weight_quant_only

\* C8 witness: a pass with weight_quant_only=False has returned, having
\* created a quantized softmax without and a quantized Linear with
\* activation parameters.
C8_Witness ==
    /\ C8_Case /\ ~Last.a.weight_quant_only
    /\ \E t \in NewTpls :
           heap[t].cls = "quantization.SharedEmbeddingSoftmax" /\ ~HasActParams(t)
    /\ \E t \in NewTpls : heap[t].cls = "quantization.Linear" /\ HasActParams(t)

\* The objects a value refers to, through sequences of any depth.
RECURSIVE Mentions(_)
Mentions(v) ==
    IF v.k = "ref" THEN {v.id}
    ELSE IF v.k = "seq" THEN UNION {Mentions(v.elems[i]) : i \in DOMAIN v.elems}
    ELSE {}

ChildTemplateFields ==
    {"proj_tpl", "combined_qkv_proj_tpl", "headless_proj_tpl", "linear_tpl",
     "softmax_tpl", "ngrammer_tpl"}

\* The places (node, argument) of h that refer to a transformer block.
BlockReferences(h) ==
    {p \in {<<i, n>> : i \in DOMAIN h, n \in ArgOrderSet} :
        /\ h[p[1]].kind = "Config" /\ p[2] \in DOMAIN h[p[1]].args
        /\ Mentions(h[p[1]].args[p[2]]) \cap Blocks(h) # {}}

\* C9: set_transformer_quantization rewrites in place.  After it returns,
\* every node that was there is the same object with the same class, and the
\* only arguments that differ are child-template fields, now holding a
\* template the pass created; so the root, every reference to a matched
\* block, and the block's own sub-templates are the objects they were.  A
\* matched block shows its quantized Linear through every place that refers
\* to it.
C9_RewritesInPlace ==
    (LastOp("set_transformer_quantization") /\ err = NoError) =>
        /\ \A i \in DOMAIN pre :
               /\ heap[i].kind = pre[i].kind /\ heap[i].cls = pre[i].cls
               /\ DOMAIN heap[i].args = DOMAIN pre[i].args
               /\ \A n \in DOMAIN pre[i].args :
                      heap[i].args[n] # pre[i].args[n] =>
                          /\ n \in ChildTemplateFields
                          /\ heap[i].args[n].k = "ref"
                          /\ heap[i].args[n].id \in NewTpls
        /\ BlockReferences(heap) = BlockReferences(pre)
        /\ \A p \in BlockReferences(pre) :
               /\ heap[p[1]].args[p[2]] = pre[p[1]].args[p[2]]
               /\ \A b \in Mentions(heap[p[1]].args[p[2]])
                             \cap Matched(pre, Last.config, "Transformer") :
                      IsNewTpl(FflayerOf(pre, b), "linear_tpl", "quantization.Linear")

\* C9 witness: the pass has returned on a config whose block is referred to
\* by two parents, and the quantized Linear is seen from both.
C9_Witness ==
    /\ LastOp("set_transformer_quantization") /\ err = NoError
    /\ \E p, q \in BlockReferences(pre) :
           /\ p[1] # q[1]
           /\ {p[1], q[1]} \subseteq Reachable(pre, Last.config)
           /\ \E b \in Matched(pre, Last.config, "Transformer") :
                  /\ heap[p[1]].args[p[2]] = Ref(b) /\ heap[q[1]].args[q[2]] = Ref(b)
                  /\ heap[LinearOf(heap, b)].cls = "quantization.Linear"

\* The last two operations were set_inference_mode on the same config.
C10_Case ==
    /\ Len(trace) >= 2
    /\ Last.op = "set_inference_mode"
    /\ trace[Len(trace) - 1].op = "set_inference_mode"
    /\ trace[Len(trace) - 1].config = Last.config

\* C10: set_inference_mode applied again changes nothing: the graph after
\* the second call (classes, arguments, quantization parameters) is the graph
\* after the first, and the second call ends as the first did.
C10_Idempotent ==
    C10_Case => (heap = pre /\ err = NoError)

\* C10 witness: set_inference_mode has been applied twice to a config that
\* was quantized in TRAINING mode, whose quantized Linear is now in
\* INFERENCE mode.
C10_Witness ==
    /\ C10_Case /\ Len(trace) = 3
    /\ trace[1].op = "set_transformer_quantization" /\ trace[1].a.mode = "TRAINING"
    /\ \E i \in Quantized(heap) :
           heap[i].cls = "quantization.Linear" /\ ModeOf(heap, i) = "INFERENCE"

\* C11: set_inference_mode changes nothing but the mode field of quantization
\* parameters.  After the call there are the same objects; every Config node
\* has the class and the arguments (hence the edges) it had; every
\* parameters object has the class and the fields it had, each field other
\* than mode with the value it had (quantization type, weight parameters with
\* bit width, symmetric flag, block size and dtype, activation parameters),
\* and its mode is the one it had or INFERENCE.
C11_OnlyModeChanges ==
    LastOp("set_inference_mode") =>
        /\ Len(heap) = Len(pre)
        /\ \A i \in DOMAIN pre :
               IF pre[i].kind = "Config" THEN heap[i] = pre[i]
               ELSE /\ heap[i].kind = pre[i].kind /\ heap[i].cls = pre[i].cls
                    /\ DOMAIN heap[i].args = DOMAIN pre[i].args
                    /\ \A n \in DOMAIN pre[i].args \ {"mode"} :
                           heap[i].args[n] = pre[i].args[n]
                    /\ heap[i].args.mode \in {pre[i].args.mode, StrV("INFERENCE")}

\* C11 witness: the call has moved parameters that hold 4-bit weight and
\* activation parameters from TRAINING to INFERENCE.
C11_Witness ==
    /\ LastOp("set_inference_mode")
    /\ \E i \in DOMAIN pre :
           /\ pre[i].kind = "Object"
           /\ pre[i].args.mode = StrV("TRAINING")
           /\ heap[i].args.mode = StrV("INFERENCE")
           /\ "act_params" \in DOMAIN heap[i].args
           /\ heap[i].args.act_params # None
           /\ heap[i].args.weight_params.precision = 4

\* The two ngrammer families of the dispatch, by their member classes.
PlainNgrammerFamily == {"Ngrammer"}
VQNgrammerFamily == {"VQNgrammer"}

\* C12: _quantize_ngrammer_embedding_weights never raises.  If lm_tpl has no
\* ngrammer_tpl, or one whose class is in neither ngrammer family, it returns
\* with nothing changed; if the class is in the plain family ngrammer_tpl
\* becomes a new quantized Ngrammer template, if it is in the
\* vector-quantized family a new quantized VQNgrammer template; the other
\* arguments of lm_tpl stay as they were.
C12_NgrammerDispatch ==
    LastOp("_quantize_ngrammer_embedding_weights") =>
        LET lm == Last.config.id
            old == pre[lm].args.ngrammer_tpl
            cls == IF old = None THEN "None" ELSE pre[old.id].cls
        IN /\ err = NoError
           /\ cls \in PlainNgrammerFamily =>
                  IsNewTpl(lm, "ngrammer_tpl", "quantization.Ngrammer")
           /\ cls \in VQNgrammerFamily =>
                  IsNewTpl(lm, "ngrammer_tpl", "quantization.VQNgrammer")
           /\ cls \notin PlainNgrammerFamily \cup VQNgrammerFamily => heap = pre
           /\ \A n \in DOMAIN pre[lm].args \ {"ngrammer_tpl"} :
                  heap[lm].args[n] = pre[lm].args[n]

\* C12 witness: the call has returned on a language model whose ngrammer_tpl
\* was a VQNgrammer template and is now a quantized VQNgrammer template.
C12_Witness ==
    /\ LastOp("_quantize_ngrammer_embedding_weights")
    /\ err = NoError
    /\ LET lm == Last.config.id
           old == pre[lm].args.ngrammer_tpl
       IN /\ old # None
          /\ pre[old.id].cls = "VQNgrammer"
          /\ heap[heap[lm].args.ngrammer_tpl.id].cls = "quantization.VQNgrammer"

(***************************************************************************)
(* pax_fiddle template configs, with the dataclasses of pax_fiddle_test:   *)
(* Wheel, Person, Vehicle and Fleet.  A built instance is an Object that   *)
(* holds every field of its class.                                         *)
(***************************************************************************)
\* The declared fields of a class, in declaration order.
Fields(cls) ==
    CASE cls = "Wheel" -> <<"radius">>
      [] cls = "Person" -> <<"name">>
      [] cls = "Vehicle" -> <<"wheel_tpl", "num_wheels", "owner", "wheels">>
      [] cls = "Fleet" -> <<"vehicle_tpl", "num_vehicles", "manager", "vehicles">>
      [] OTHER -> <<>>

\* pax_fiddle.template_field: the field holds a Config that build leaves alone.
TemplateFields == {"wheel_tpl", "vehicle_tpl"}

\* The default of a field that is no template_field or sub_field.
Default(name) ==
    CASE name = "radius" -> IntV(5)
      [] name = "num_wheels" -> IntV(4)
      [] name = "num_vehicles" -> IntV(1)
      [] OTHER -> None

InvalidArgument(cls, name) == [kind |-> "InvalidArgument", cls |-> cls, at |-> name]

\* The arguments set on a node, in declaration order.
SetFields(h, id) ==
    SelectSeq(Fields(h[id].cls), LAMBDA n : n \in DOMAIN h[id].args)

\* Mutant: only the node itself is copied, the copy refers to the nested
\* nodes of its source.
clone_shallow(h, id) ==
    [heap |-> Append(h, h[id]), id |-> Len(h) + 1]

\* cfg.clone(): every nested Config node is cloned, then the node.  The
\* result is the new store and the clone.
RECURSIVE clone(_, _)
RECURSIVE CloneArgs(_, _, _, _)
CloneArgs(h, id, names, args) ==
    IF names = <<>> THEN [heap |-> h, args |-> args]
    ELSE LET n == Head(names)
             v == h[id].args[n]
         IN IF v.k = "ref"
            THEN LET r == clone(h, v.id)
                 IN CloneArgs(r.heap, id, Tail(names), (n :> Ref(r.id)) @@ args)
            ELSE CloneArgs(h, id, Tail(names), (n :> v) @@ args)

clone(h, id) ==
    LET r == CloneArgs(h, id, SetFields(h, id), NoArgs)
    IN [heap |-> Append(r.heap, [kind |-> h[id].kind, cls |-> h[id].cls,
                                 args |-> r.args]),
        id |-> Len(r.heap) + 1]

\* Mutant: a name the class does not declare is assigned like any other.
RECURSIVE set_unchecked(_, _, _)
set_unchecked(st, id, kwargs) ==
    IF kwargs = <<>> THEN st
    ELSE set_unchecked([st EXCEPT !.heap = SetAttr(@, id, Head(kwargs).name,
                                                    Head(kwargs).val)],
                       id, Tail(kwargs))

\* cfg.set(**kwargs): the named arguments are assigned on the node itself;
\* a name that is no declared parameter fails.
RECURSIVE set(_, _, _)
set(st, id, kwargs) ==
    IF kwargs = <<>> THEN st
    ELSE LET kw == Head(kwargs)
             cls == st.heap[id].cls
         IN IF kw.name \notin Range(Fields(cls))
            THEN [st EXCEPT !.err = InvalidArgument(cls, kw.name)]
            ELSE set([st EXCEPT !.heap = SetAttr(@, id, kw.name, kw.val)],
                     id, Tail(kwargs))

\* pax_fiddle.build(config): depth first, nested Config arguments before the
\* node; a template field keeps its Config; a node met again during the same
\* call gives the instance already built for it (b.memo).
RECURSIVE BuildNode(_, _)
RECURSIVE BuildArgs(_, _, _, _)
BuildArgs(b, id, names, args) ==
    IF names = <<>> THEN [heap |-> b.heap, memo |-> b.memo, args |-> args]
    ELSE LET n == Head(names)
             v == IF n \in DOMAIN b.heap[id].args THEN b.heap[id].args[n]
                  ELSE Default(n)
         IN IF n \notin TemplateFields /\ IsConfig(b.heap, v)
            THEN LET r == BuildNode(b, v.id)
                 IN BuildArgs(r, id, Tail(names), (n :> Ref(r.id)) @@ args)
            ELSE BuildArgs(b, id, Tail(names), (n :> v) @@ args)

BuildNode(b, id) ==
    IF id \in DOMAIN b.memo
    THEN [heap |-> b.heap, memo |-> b.memo, id |-> b.memo[id]]
    ELSE LET r == BuildArgs(b, id, Fields(b.heap[id].cls), NoArgs)
             new == Len(r.heap) + 1
         IN [heap |-> Append(r.heap, Object(b.heap[id].cls, r.args)),
             memo |-> (id :> new) @@ r.memo,
             id |-> new]

build(h, config) ==
    LET r == BuildNode([heap |-> h, memo |-> NoArgs], config)
    IN [heap |-> r.heap, id |-> r.id]

\* Vehicle.setup and Fleet.setup:
\*   [pax_fiddle.build(tpl).setup() for i in range(n)]
\* Wheel.setup and Person.setup return self.
RECURSIVE setup(_, _)

\* Mutant: one element is built and set up, and the list repeats it.
BuildEach_repeating(h, tpl, n, acc) ==
    IF n = 0 THEN [heap |-> h, elems |-> acc]
    ELSE LET b == build(h, tpl)
         IN [heap |-> setup(b.heap, b.id), elems |-> [i \in 1..n |-> Ref(b.id)]]

RECURSIVE BuildEach(_, _, _, _)
BuildEach(h, tpl, n, acc) ==
    IF n = 0 THEN [heap |-> h, elems |-> acc]
    ELSE LET b == build(h, tpl)
         IN BuildEach(setup(b.heap, b.id), tpl, n - 1, Append(acc, Ref(b.id)))

setup(h, self) ==
    LET cls == h[self].cls
    IN IF cls = "Vehicle"
       THEN LET r == BuildEach(h, h[self].args.wheel_tpl.id,
                               h[self].args.num_wheels.v, <<>>)
            IN SetAttr(r.heap, self, "wheels", SeqV(r.elems))
       ELSE IF cls = "Fleet"
       THEN LET r == BuildEach(h, h[self].args.vehicle_tpl.id,
                               h[self].args.num_vehicles.v, <<>>)
            IN SetAttr(r.heap, self, "vehicles", SeqV(r.elems))
       ELSE h

(***************************************************************************)
(* The configs of pax_fiddle_test and the operations applied to them.      *)
(***************************************************************************)
\* How many operations are applied to one config.
MaxFiddleOps == 2

\* pax_fiddle.Config(Fleet) with manager.name = "Ben", the vehicle's owner
\* either its own Person config named "Joe" or the manager's config itself,
\* and num_vehicles, num_wheels either left unset or set.
FleetNodes(shared, num_vehicles, num_wheels) ==
    LET sizes(name, n) == IF n = 0 THEN NoArgs ELSE (name :> IntV(n))
    IN IF shared
       THEN << Config("Wheel", NoArgs),
               Config("Person", [name |-> StrV("Ben")]),
               Config("Vehicle", [wheel_tpl |-> Ref(1), owner |-> Ref(2)]
                                 @@ sizes("num_wheels", num_wheels)),
               Config("Fleet", [vehicle_tpl |-> Ref(3), manager |-> Ref(2)]
                               @@ sizes("num_vehicles", num_vehicles)) >>
       ELSE << Config("Wheel", [radius |-> IntV(10)]),
               Config("Person", [name |-> StrV("Joe")]),
               Config("Vehicle", [wheel_tpl |-> Ref(1), owner |-> Ref(2)]
                                 @@ sizes("num_wheels", num_wheels)),
               Config("Person", [name |-> StrV("Ben")]),
               Config("Fleet", [vehicle_tpl |-> Ref(3), manager |-> Ref(4)]
                               @@ sizes("num_vehicles", num_vehicles)) >>

\* pax_fiddle.Config(Vehicle, wheel_tpl=pax_fiddle.Config(Wheel), num_wheels=3)
VehicleNodes ==
    << Config("Wheel", NoArgs),
       Config("Person", NoArgs),
       Config("Vehicle", [wheel_tpl |-> Ref(1), num_wheels |-> IntV(3),
                          owner |-> Ref(2)]) >>

FiddleConfigs ==
    {FleetNodes(shared, nv, nw) :
         shared \in BOOLEAN, nv \in {0, 3}, nw \in {0, 2}}
    \cup {VehicleNodes}

\* The keyword arguments of a call of set.
Kwargs ==
    { << [name |-> "num_wheels", val |-> IntV(2)] >>,
      << [name |-> "radius", val |-> IntV(20)] >>,
      << [name |-> "name", val |-> StrV("Grug")] >>,
      << [name |-> "num_wheels", val |-> IntV(2)],
         [name |-> "color", val |-> StrV("red")] >> }

ConfigNodes(h) == {i \in DOMAIN h : h[i].kind = "Config"}

FiddleInit ==
    \E nodes \in FiddleConfigs :
        /\ heap = nodes
        /\ task = [family |-> "fiddle", model |-> Len(nodes), has_train |-> FALSE,
                   has_rules |-> FALSE, rules |-> <<>>]
        /\ pre = nodes
        /\ trace = <<>>
        /\ err = NoError
        /\ calls = <<>>
        /\ to_process = <<>>
        /\ visited = <<>>

\* The operation's result becomes the state; result is what it returned.
FinishFiddle(h, e, op, a, config, result) ==
    /\ heap' = h
    /\ err' = e
    /\ calls' = <<>>
    /\ pre' = heap
    /\ trace' = Append(trace, [op |-> op, a |-> a, config |-> config,
                               result |-> result])
    /\ UNCHANGED <<task, to_process, visited>>

\* clone = cfg.clone()
Clone ==
    /\ Len(trace) < MaxFiddleOps
    /\ \E cfg \in ConfigNodes(heap) :
           LET r == clone(heap, cfg)
           IN FinishFiddle(r.heap, NoError, "clone", [none |-> TRUE],
                           Ref(cfg), Ref(r.id))

\* cfg.set(**kwargs)
Set ==
    /\ Len(trace) < MaxFiddleOps
    /\ \E cfg \in ConfigNodes(heap), kwargs \in Kwargs :
           LET st == set(Start, cfg, kwargs)
           IN FinishFiddle(st.heap, st.err, "set", [kwargs |-> kwargs], Ref(cfg),
                           IF st.err = NoError THEN Ref(cfg) ELSE None)

\* fleet = pax_fiddle.build(config).setup()
BuildAndSetup ==
    /\ Len(trace) < MaxFiddleOps
    /\ LET b == build(heap, task.model)
       IN FinishFiddle(setup(b.heap, b.id), NoError, "build.setup",
                       [none |-> TRUE], Ref(task.model), Ref(b.id))

FiddleNext ==
    \/ Clone
    \/ Set
    \/ BuildAndSetup

FiddleSpec == FiddleInit /\ [][FiddleNext]_vars

\* The nodes nested in a node, the node itself included.
RECURSIVE Nested(_, _)
Nested(h, id) ==
    {id} \cup UNION {Nested(h, j) :
                        j \in UNION {Mentions(h[id].args[n]) : n \in DOMAIN h[id].args}}

\* Structural equality of two values: nodes are equal when their classes and
\* their arguments are, whichever objects they are.
RECURSIVE ValEq(_, _, _)
ValEq(h, v, w) ==
    IF v.k # w.k THEN FALSE
    ELSE IF v.k = "ref"
    THEN LET a == h[v.id]
             b == h[w.id]
         IN /\ a.kind = b.kind /\ a.cls = b.cls
            /\ DOMAIN a.args = DOMAIN b.args
            /\ \A n \in DOMAIN a.args : ValEq(h, a.args[n], b.args[n])
    ELSE IF v.k = "seq"
    THEN /\ Len(v.elems) = Len(w.elems)
         /\ \A i \in DOMAIN v.elems : ValEq(h, v.elems[i], w.elems[i])
    ELSE v = w

\* The clone operations made before the last operation.
EarlierClones == {i \in 1..(Len(trace) - 1) : trace[i].op = "clone"}

\* C13: for every Config node x, clone(x) is structurally equal to x, is a
\* new object, and no node nested in the clone is a node nested in x; cloning
\* leaves the nodes that were there as they were.  Consequently a set on a
\* node nested in a clone (the first or a later one) leaves every node
\* nested in the clone's source as it was.
C13_CloneIsIndependent ==
    /\ LastOp("clone") =>
           LET x == Last.config.id
               c == Last.result.id
           IN /\ ValEq(heap, Ref(c), Ref(x))
              /\ c # x /\ c \notin DOMAIN pre
              /\ Nested(heap, c) \cap Nested(heap, x) = {}
              /\ \A i \in DOMAIN pre : heap[i] = pre[i]
    /\ LastOp("set") =>
           \A e \in EarlierClones :
               Last.config.id \in Nested(pre, trace[e].result.id) =>
                   \A i \in Nested(pre, trace[e].config.id) : heap[i] = pre[i]

\* C13 witness: a fleet config has been cloned, and a set on the wheel
\* template nested in the clone has changed that template.
C13_Witness ==
    /\ Len(trace) = 2
    /\ trace[1].op = "clone" /\ pre[trace[1].config.id].cls = "Fleet"
    /\ Last.op = "set" /\ err = NoError
    /\ Last.config.id \in Nested(pre, trace[1].result.id) \ {trace[1].result.id}
    /\ heap[Last.config.id].cls = "Wheel"
    /\ heap[Last.config.id] # pre[Last.config.id]

\* The value a config gives a field: the argument set, or the default.
ArgOr(h, id, name) ==
    IF name \in DOMAIN h[id].args THEN h[id].args[name] ELSE Default(name)

\* The last operation built and set up a fleet.
C14_Case == LastOp("build.setup") /\ pre[Last.config.id].cls = "Fleet"

\* The fleet config's vehicle owner is the very config of its manager.
SharedOwner(h, config) ==
    h[h[config].args.vehicle_tpl.id].args.owner = h[config].args.manager

\* C14: instances built by different build calls share no object.  After
\* build(config).setup() on a fleet config, the fleet has num_vehicles
\* vehicles of num_wheels wheels each; two vehicles are different objects
\* with different owners, and are equal by value; two wheels at different
\* places are different objects, equal by value; the manager is no
\* vehicle's owner, and is equal to it by value when both came from one
\* Config node; no instance of the fleet existed before the call.
C14_NoSharedInstances ==
    C14_Case =>
        LET config == Last.config.id
            fleet == Last.result.id
            vehicles == heap[fleet].args.vehicles.elems
            owner(i) == heap[vehicles[i].id].args.owner
            wheels(i) == heap[vehicles[i].id].args.wheels.elems
            manager == heap[fleet].args.manager
            vehicle_tpl == pre[config].args.vehicle_tpl.id
            num_wheels == ArgOr(pre, vehicle_tpl, "num_wheels").v
            Slots == (DOMAIN vehicles) \X (1..num_wheels)
        IN /\ Len(vehicles) = ArgOr(pre, config, "num_vehicles").v
           /\ \A i \in DOMAIN vehicles : Len(wheels(i)) = num_wheels
           /\ \A i, j \in DOMAIN vehicles :
                  i # j => /\ vehicles[i] # vehicles[j]
                           /\ owner(i) # owner(j)
                           /\ ValEq(heap, vehicles[i], vehicles[j])
           /\ \A p, q \in Slots :
                  p # q => /\ wheels(p[1])[p[2]] # wheels(q[1])[q[2]]
                           /\ ValEq(heap, wheels(p[1])[p[2]], wheels(q[1])[q[2]])
           /\ \A i \in DOMAIN vehicles :
                  /\ manager # owner(i)
                  /\ SharedOwner(pre, config) => ValEq(heap, manager, owner(i))
           /\ \A i \in Nested(heap, fleet) :
                  heap[i].kind = "Object" => i \notin DOMAIN pre

\* C14 witness: a fleet of three vehicles with four wheels each has been
\* built from a config whose vehicle owner is the manager's config.
C14_Witness ==
    /\ C14_Case /\ SharedOwner(pre, Last.config.id)
    /\ Len(heap[Last.result.id].args.vehicles.elems) = 3
    /\ Len(heap[heap[Last.result.id].args.vehicles.elems[3].id].args.wheels.elems) = 4
    /\ heap[heap[Last.result.id].args.manager.id].args.name = StrV("Ben")

\* The names a call of set passes.
KwargNames(kwargs) == {kwargs[i].name : i \in DOMAIN kwargs}

\* C15: set(**kwargs) assigns the named arguments on the node itself and
\* returns that node.  When every name is a declared parameter of the node's
\* class the call succeeds, the node is the same object of the same class,
\* each named argument has the value given, every other argument of the node
\* and every other node is as it was; when a name is not declared the call
\* fails with InvalidArgument, naming an undeclared name.
C15_SetAssignsInPlace ==
    LastOp("set") =>
        LET x == Last.config.id
            kwargs == Last.a.kwargs
            names == KwargNames(kwargs)
            declared == Range(Fields(pre[x].cls))
        IN IF names \subseteq declared
           THEN /\ err = NoError
                /\ Last.result = Ref(x)
                /\ Len(heap) = Len(pre)
                /\ heap[x].kind = pre[x].kind /\ heap[x].cls = pre[x].cls
                /\ DOMAIN heap[x].args = DOMAIN pre[x].args \cup names
                /\ \A i \in DOMAIN kwargs : heap[x].args[kwargs[i].name] = kwargs[i].val
                /\ \A n \in DOMAIN pre[x].args \ names : heap[x].args[n] = pre[x].args[n]
                /\ \A i \in DOMAIN pre \ {x} : heap[i] = pre[i]
           ELSE /\ err.kind = "InvalidArgument"
                /\ err.cls = pre[x].cls
                /\ err.at \in names \ declared

\* C15 witness: set(num_wheels=2) has succeeded on a Vehicle config that had
\* another num_wheels, its wheel template and owner still the nodes they were.
C15_Witness ==
    /\ LastOp("set") /\ err = NoError
    /\ pre[Last.config.id].cls = "Vehicle"
    /\ ArgOr(pre, Last.config.id, "num_wheels") # IntV(2)
    /\ heap[Last.config.id].args.num_wheels = IntV(2)
    /\ heap[Last.config.id].args.wheel_tpl = pre[Last.config.id].args.wheel_tpl
    /\ heap[Last.config.id].args.owner = pre[Last.config.id].args.owner

(***************************************************************************)
(* The mode the decorators accept                                          *)
(***************************************************************************)
\* C16 as stated: no task config a decorated class's task() returns holds a
\* quantized template in MATERIALIZE mode, whatever mode the decorator was
\* given.
C16_Original ==
    ((LastOp("for_transformer.task") \/ LastOp("for_diffusion.task"))
         /\ err = NoError) =>
        \A i \in Quantized(heap) : ModeOf(heap, i) # "MATERIALIZE"

(***************************************************************************)
(* set_inference_mode, one iteration of `while to_process` at a time.  The *)
(* call is made on a config that a pass has quantized in TRAINING mode.    *)
(***************************************************************************)
\* The arguments the config was quantized with.
WorklistTransformerArgs ==
    {a \in Direct(TransformerArgs) :
        /\ a.mode = "TRAINING" /\ a.num_bits = 4 /\ ~a.weight_quant_only
        /\ ~a.quantize_embedding_softmax /\ a.quantize_ngrammer_embedding}

WorklistDiffusionArgs ==
    {a \in Direct(DiffusionArgs) :
        /\ a.mode = "TRAINING" /\ a.num_bits = 4 /\ ~a.weight_quant_only
        /\ a.target = "UNet"}

\* The configs set_inference_mode is called on: quantized without error.
QuantizedBy(c) ==
    IF c.task.family = "lm"
    THEN {[task |-> c.task,
           st |-> set_transformer_quantization(
                      [heap |-> c.heap, err |-> NoError, calls |-> <<>>],
                      Ref(c.task.model), a)] : a \in WorklistTransformerArgs}
    ELSE {[task |-> c.task,
           st |-> set_diffusion_quantization(
                      [heap |-> c.heap, err |-> NoError, calls |-> <<>>],
                      Ref(c.task.model), a)] : a \in WorklistDiffusionArgs}

QuantizedConfigs ==
    {q \in UNION {QuantizedBy(c) : c \in InitialConfigs} : q.st.err = NoError}

\* to_process = [config]
WorklistInit ==
    \E q \in QuantizedConfigs :
        \E config \in {Ref(q.task.model), SeqV(<<Ref(q.task.model)>>)} :
            /\ heap = q.st.heap
            /\ task = q.task
            /\ pre = q.st.heap
            /\ trace = << [op |-> "set_inference_mode", a |-> [none |-> TRUE],
                           config |-> config] >>
            /\ err = NoError
            /\ calls = <<>>
            /\ to_process = <<config>>
            /\ visited = <<>>

\* One iteration of `while to_process`; visited gains the Config nodes among
\* the elements the iteration went through.
Step ==
    /\ to_process # <<>> /\ err = NoError
    /\ LET w == Iterate([heap |-> heap, err |-> err, to_process |-> to_process])
           param == to_process[Len(to_process)]
           params == IF param.k = "seq" THEN param.elems ELSE <<param>>
           configs == SelectSeq(params, LAMBDA v : IsConfig(heap, v))
       IN /\ heap' = w.heap
          /\ err' = w.err
          /\ to_process' = w.to_process
          /\ visited' = visited \o [i \in DOMAIN configs |-> configs[i].id]
    /\ UNCHANGED <<task, pre, trace, calls>>

WorklistNext == Step

\* The loop is sequential code: an iteration that can run does run.
WorklistSpec == WorklistInit /\ [][WorklistNext]_vars /\ WF_vars(Step)

\* The call has returned: the work list is empty.
Returned == to_process = <<>> /\ err = NoError

\* How often a node was processed.
Count(seq, x) == Cardinality({i \in DOMAIN seq : seq[i] = x})

\* The number of distinct paths from a value to a Config node, through
\* arguments and through sequences nested to any depth.
RECURSIVE Paths(_, _, _)
RECURSIVE SumPaths(_, _, _)
Paths(h, v, target) ==
    IF v.k = "ref"
    THEN IF h[v.id].kind = "Config"
         THEN (IF v.id = target THEN 1 ELSE 0) + SumPaths(h, ArgVals(h, v.id), target)
         ELSE 0
    ELSE IF v.k = "seq" THEN SumPaths(h, v.elems, target)
    ELSE 0

SumPaths(h, vals, target) ==
    IF vals = <<>> THEN 0
    ELSE Paths(h, Head(vals), target) + SumPaths(h, Tail(vals), target)

\* The graph with each reachable node that carries quantization parameters
\* processed once: its parameters are in INFERENCE mode.
ProcessedOnce(h, config) ==
    [i \in DOMAIN h |->
        IF \E n \in Reachable(h, config) \cap Quantized(h) :
               h[n].args.quantization = Ref(i)
        THEN [h[i] EXCEPT !.args.mode = StrV("INFERENCE")]
        ELSE h[i]]

\* C17 as stated: on every finite acyclic config graph the work list of
\* set_inference_mode eventually becomes empty; by then a node reachable via
\* k distinct paths has been processed k times, and the graph is the one
\* obtained by processing each node once.
C17_Original ==
    /\ <>Returned
    /\ [](Returned =>
            /\ \A n \in Reachable(pre, Last.config) :
                   Count(visited, n) = Paths(pre, Last.config, n)
            /\ heap = ProcessedOnce(pre, Last.config))

====
